---------------------------- MODULE Spec2Model ----------------------------
(***************************************************************************)
(* Model of the chapterize-whisper transcript pipeline.                    *)
(*                                                                         *)
(* Texts are sequences of one-character strings, so that the string        *)
(* operations of the source (strip, lower, split, startswith, int, the     *)
(* f-string paddings) are computed rather than assumed.  The characters    *)
(* are those of ASCII; the whitespace and digits of Unicode beyond it are  *)
(* outside the alphabet.                                                   *)
(*                                                                         *)
(* A time the program holds as a float (a segment's start and end, a       *)
(* duration, an offset) is a whole number of eighths of a second: the      *)
(* integer t stands for the float t / 8.  Every such float is a binary     *)
(* fraction, so the float arithmetic of the source (x % 1, * 1000, +) is   *)
(* exact on it and the integer arithmetic below is what Python computes.   *)
(* A time read back from a timestamp text is in whole milliseconds.        *)
(***************************************************************************)
EXTENDS Integers, Sequences, FiniteSets, TLC

\* ------------------------------------------------------------------ text

NL == "\n"

Digits == <<"0","1","2","3","4","5","6","7","8","9">>

UpperCase == <<"A","B","C","D","E","F","G","H","I","J","K","L","M","N","O","P","Q","R","S","T","U","V","W","X","Y","Z">>

LowerCase == <<"a","b","c","d","e","f","g","h","i","j","k","l","m","n","o","p","q","r","s","t","u","v","w","x","y","z">>

\* str.isspace, one character, which is also \s of re: blank, \t, \n, \r,
\* form feed, vertical tab and the separators 0x1c..0x1f
IsSpace(c) == c \in {" ", "\n", "\t", "\r", "\f", "", "", "", "", ""}

\* the whitespace int() strips: str.isspace without the separators 0x1c..0x1f
IsIntSpace(c) == c \in {" ", "\n", "\t", "\r", "\f", ""}

\* str.isdigit, one character
IsDigit(c) == c \in {Digits[i] : i \in 1..Len(Digits)}

DigitVal(c) == (CHOOSE i \in 1..Len(Digits) : Digits[i] = c) - 1

\* str.lower, one character
LowerChar(c) ==
    IF \E i \in 1..Len(UpperCase) : UpperCase[i] = c
    THEN LowerCase[CHOOSE i \in 1..Len(UpperCase) : UpperCase[i] = c]
    ELSE c

\* str.lower
Lower(s) == [i \in 1..Len(s) |-> LowerChar(s[i])]

RECURSIVE LStrip(_)
\* str.lstrip
LStrip(s) == IF s # <<>> /\ IsSpace(Head(s)) THEN LStrip(Tail(s)) ELSE s

RECURSIVE RStrip(_)
\* str.rstrip
RStrip(s) ==
    IF s # <<>> /\ IsSpace(s[Len(s)]) THEN RStrip(SubSeq(s, 1, Len(s) - 1)) ELSE s

\* str.strip
Strip(s) == LStrip(RStrip(s))

\* str.startswith
StartsWith(s, p) == Len(p) <= Len(s) /\ SubSeq(s, 1, Len(p)) = p

\* str.endswith
EndsWith(s, p) == Len(p) <= Len(s) /\ SubSeq(s, Len(s) - Len(p) + 1, Len(s)) = p

\* str.find + 1: the first position where p occurs in s, 0 when it does not
Find(s, p) ==
    LET hits == {i \in 1..(Len(s) - Len(p) + 1) : SubSeq(s, i, i + Len(p) - 1) = p}
    IN  IF hits = {} THEN 0 ELSE CHOOSE i \in hits : \A j \in hits : i <= j

\* the `in` operator on strings
Contains(s, p) == Find(s, p) # 0

RECURSIVE SplitMax(_, _, _)
\* str.split(sep, maxsplit); maxsplit = -1 splits everywhere
SplitMax(s, sep, maxsplit) ==
    LET at == Find(s, sep)
    IN  IF maxsplit = 0 \/ at = 0
        THEN <<s>>
        ELSE <<SubSeq(s, 1, at - 1)>>
             \o SplitMax(SubSeq(s, at + Len(sep), Len(s)), sep,
                         IF maxsplit < 0 THEN maxsplit ELSE maxsplit - 1)

\* str.split(sep)
Split(s, sep) == SplitMax(s, sep, -1)

RECURSIVE IntStrip(_)
\* int(text): the text without the whitespace around it
IntStrip(s) ==
    IF s # <<>> /\ IsIntSpace(Head(s)) THEN IntStrip(Tail(s))
    ELSE IF s # <<>> /\ IsIntSpace(s[Len(s)]) THEN IntStrip(SubSeq(s, 1, Len(s) - 1))
    ELSE s

\* int(text): the text after the whitespace and an optional sign
IntBody(s) ==
    LET t == IntStrip(s)
    IN  IF t # <<>> /\ Head(t) \in {"+", "-"} THEN Tail(t) ELSE t

\* the texts int() accepts: whitespace around, an optional sign, then digits,
\* which may have single underscores between them
IsIntText(s) ==
    LET b == IntBody(s)
    IN  /\ b # <<>>
        /\ IsDigit(b[1]) /\ IsDigit(b[Len(b)])
        /\ \A i \in 1..Len(b) : IsDigit(b[i]) \/ b[i] = "_"
        /\ \A i \in 1..(Len(b) - 1) : ~(b[i] = "_" /\ b[i + 1] = "_")

RECURSIVE DigitsVal(_)
\* the number the digits of t spell, underscores passed over
DigitsVal(t) ==
    IF t = <<>> THEN 0
    ELSE IF t[Len(t)] = "_" THEN DigitsVal(SubSeq(t, 1, Len(t) - 1))
    ELSE 10 * DigitsVal(SubSeq(t, 1, Len(t) - 1)) + DigitVal(t[Len(t)])

\* int(text), for a text IsIntText accepts
ToInt(s) ==
    LET t == IntStrip(s)
    IN  IF t # <<>> /\ Head(t) = "-" THEN 0 - DigitsVal(IntBody(s))
        ELSE DigitsVal(IntBody(s))

RECURSIVE NatText(_)
\* str(n) of a natural number
NatText(n) == IF n < 10 THEN <<Digits[n + 1]>> ELSE NatText(n \div 10) \o <<Digits[(n % 10) + 1]>>

RECURSIVE Pad(_, _)
\* the format spec {n:0w}: at least w digits, zero padded
Pad(n, w) ==
    LET t == NatText(n)
    IN  IF Len(t) >= w THEN t ELSE [i \in 1..(w - Len(t)) |-> "0"] \o t

\* a Python call that raised
Raised == [raised |-> TRUE]

\* a Python call that returned v
Returned(v) == [raised |-> FALSE, value |-> v]

\* ------------------------------------------------------- timestamp codec

\* round(n / d) of Python 3 for integers n >= 0 and d > 0: to the nearest
\* integer, ties to the even one
RoundHalfEven(n, d) ==
    LET q == n \div d
        r == n % d
    IN  IF 2 * r < d THEN q
        ELSE IF 2 * r > d THEN q + 1
        ELSE IF q % 2 = 0 THEN q ELSE q + 1

\* utils.format_timestamp_srt, seconds and offset in eighths of a second;
\* int((seconds % 1) * 1000) cuts the product off, int(seconds) the seconds
format_timestamp_srt(seconds, offset) ==
    LET t            == seconds + offset
        milliseconds == ((t % 8) * 1000) \div 8
        whole        == t \div 8
        minutes0     == whole \div 60
        secs         == whole % 60
        hours        == minutes0 \div 60
        minutes      == minutes0 % 60
    IN  Pad(hours, 2) \o <<":">> \o Pad(minutes, 2) \o <<":">> \o Pad(secs, 2)
        \o <<",">> \o Pad(milliseconds, 3)

\* Chapterizer.format_timestamp, seconds in eighths of a second: timedelta
\* keeps the days apart from .seconds and .microseconds
format_timestamp(seconds) ==
    LET td_seconds      == (seconds \div 8) % 86400
        td_microseconds == (seconds % 8) * 125000
        hours           == td_seconds \div 3600
        minutes         == (td_seconds \div 60) % 60
        secs            == td_seconds % 60
        milliseconds    == RoundHalfEven(td_microseconds, 1000)
    IN  Pad(hours, 2) \o <<":">> \o Pad(minutes, 2) \o <<":">> \o Pad(secs, 2)
        \o <<",">> \o Pad(milliseconds, 3)

\* utils.parse_timestamp_srt: the value in milliseconds, or the ValueError of
\* an unpacking or of int()
parse_timestamp_srt(timestamp) ==
    LET hms == Split(timestamp, <<":">>)
    IN  IF Len(hms) # 3 THEN Raised
        ELSE LET sm == Split(hms[3], <<",">>)
             IN  IF Len(sm) # 2 THEN Raised
                 ELSE IF ~(IsIntText(hms[1]) /\ IsIntText(hms[2])
                           /\ IsIntText(sm[1]) /\ IsIntText(sm[2]))
                 THEN Raised
                 ELSE Returned(ToInt(hms[1]) * 3600000 + ToInt(hms[2]) * 60000
                               + ToInt(sm[1]) * 1000 + ToInt(sm[2]))

\* ----------------------------------------------------- chapter heuristics

\* utils.is_chapter: chapter_patterns
chapter_patterns ==
    { <<"c","h","a","p","t","e","r"," ">>, <<"p","a","r","t"," ">>, <<"b","o","o","k"," ">>, <<"s","e","c","t","i","o","n"," ">>, <<"p","r","o","l","o","g","u","e">>,
      <<"p","r","o","l","o","g">>, <<"e","p","i","l","o","g","u","e">>, <<"e","p","i","l","o","g">>, <<"i","n","t","r","o","d","u","c","t","i","o","n">>,
      <<"i","n","t","e","r","l","u","d","e">>, <<"i","n","t","e","r","m","i","s","s","i","o","n">>, <<"a","f","t","e","r","w","o","r","d">>, <<"f","o","r","e","w","o","r","d">>,
      <<"p","r","e","f","a","c","e">>, <<"a","p","p","e","n","d","i","x">> }

\* utils.is_chapter: roman_numerals
roman_numerals ==
    { <<"i">>, <<"i","i">>, <<"i","i","i">>, <<"i","v">>, <<"v">>, <<"v","i">>, <<"v","i","i">>,
      <<"v","i","i","i">>, <<"i","x">>, <<"x">> }

\* str.isdigit
IsDigitText(t) == t # <<>> /\ \A i \in 1..Len(t) : IsDigit(t[i])

\* what the generator of utils.is_chapter iterates over:
\*   chapter_patterns or text.isdigit() or text in roman_numerals
\* `or` yields its first truthy operand, and a non-empty set is truthy
is_chapter_iterable(t) ==
    IF chapter_patterns # {} THEN chapter_patterns
    ELSE IF IsDigitText(t) THEN {<<>>}
    ELSE IF t \in roman_numerals THEN {<<>>}
    ELSE {}

\* utils.is_chapter
is_chapter(text) ==
    LET t == Strip(Lower(text))
    IN  \E pattern \in is_chapter_iterable(t) : StartsWith(t, pattern)

RECURSIVE LeadingDigits(_)
\* the length of the longest match of \d* at the start of s
LeadingDigits(s) == IF s # <<>> /\ IsDigit(Head(s)) THEN 1 + LeadingDigits(Tail(s)) ELSE 0

RECURSIVE LeadingSpaces(_)
\* the length of the longest match of \s* at the start of s
LeadingSpaces(s) == IF s # <<>> /\ IsSpace(Head(s)) THEN 1 + LeadingSpaces(Tail(s)) ELSE 0

Drop(s, n) == SubSeq(s, n + 1, Len(s))

\* re.match(r'^<keyword>\s+\d+', t)
MatchKeywordNumber(t, keyword) ==
    /\ StartsWith(t, keyword)
    /\ LET r == Drop(t, Len(keyword))
           w == LeadingSpaces(r)
       IN  w >= 1 /\ LeadingDigits(Drop(r, w)) >= 1

\* re.match(r'^\d+\.', t)
MatchNumberDot(t) ==
    LET d == LeadingDigits(t) IN d >= 1 /\ Len(t) > d /\ t[d + 1] = "."

\* re.match(r'book\s+\d+:\s+chapter', t)
MatchBookChapter(t) ==
    /\ StartsWith(t, <<"b","o","o","k">>)
    /\ LET r1 == Drop(t, 4)
           w1 == LeadingSpaces(r1)
           r2 == Drop(r1, w1)
           d  == LeadingDigits(r2)
           r3 == Drop(r2, d)
           r4 == Drop(r3, 1)
           w2 == LeadingSpaces(r4)
       IN  /\ w1 >= 1 /\ d >= 1
           /\ r3 # <<>> /\ Head(r3) = ":"
           /\ w2 >= 1
           /\ StartsWith(Drop(r4, w2), <<"c","h","a","p","t","e","r">>)

\* re.match(r'^\d+\s*$', t)
MatchBareNumber(t) ==
    LET d == LeadingDigits(t)
    IN  d >= 1 /\ LeadingSpaces(Drop(t, d)) = Len(t) - d

\* Chapterizer.is_chapter_title: the patterns of the form ^keyword\s+\d+
title_number_keywords ==
    { <<"c","h","a","p","t","e","r">>, <<"b","o","o","k">>, <<"p","a","r","t">>, <<"s","e","c","t","i","o","n">>, <<"v","o","l","u","m","e">>, <<"a","c","t">> }

\* Chapterizer.is_chapter_title: the patterns of the form ^keyword
title_keywords ==
    { <<"e","p","i","l","o","g","u","e">>, <<"p","r","o","l","o","g","u","e">>, <<"i","n","t","r","o","d","u","c","t","i","o","n">>, <<"p","r","e","f","a","c","e">>,
      <<"a","p","p","e","n","d","i","x">>, <<"a","f","t","e","r","w","o","r","d">>, <<"i","n","t","e","r","l","u","d","e">> }

\* Chapterizer.is_chapter_title: special_phrases
special_phrases ==
    { <<"r","e","a","d"," ","f","o","r"," ","y","o","u"," ","b","y">>, <<"e","n","d"," ","o","f"," ","c","h","a","p","t","e","r">>, <<"e","n","d"," ","o","f"," ","b","o","o","k">>,
      <<"e","n","d"," ","o","f"," ","p","a","r","t">> }

\* Chapterizer.is_chapter_title
is_chapter_title(text) ==
    LET text_lower == Strip(Lower(text))
    IN  \/ \E k \in title_number_keywords : MatchKeywordNumber(text_lower, k)
        \/ \E k \in title_keywords : StartsWith(text_lower, k)
        \/ MatchNumberDot(text_lower)
        \/ MatchBookChapter(text_lower)
        \/ \E phrase \in special_phrases : Contains(text_lower, phrase)
        \/ MatchBareNumber(text_lower)

\* ------------------------------------------------------ chapter file parser

\* parse_chapter_file: lines = [line.strip() for line in file if line.strip()]
NonBlankLines(file_lines) ==
    LET stripped == [i \in 1..Len(file_lines) |-> Strip(file_lines[i])]
    IN  SelectSeq(stripped, LAMBDA l : l # <<>>)

\* parse_chapter_file: the timestamp of one line, "HH:MM:SS,mmm,title" split
\* at its first two commas; the ValueError of the unpacking or of the parse
LineTimestamp(line) ==
    LET parts == SplitMax(line, <<",">>, 2)
    IN  IF Len(parts) # 3 THEN Raised
        ELSE parse_timestamp_srt(parts[1] \o <<",">> \o parts[2])

\* utils.BookChapter, built by one iteration of parse_chapter_file's loop
\* (i is the 0-based position enumerate yields)
BookChapter(lines, i) ==
    [ id    |-> i + 1,
      start |-> LineTimestamp(lines[i + 1]).value,
      end   |-> LineTimestamp(lines[i + 2]).value,
      title |-> Strip(SplitMax(lines[i + 1], <<",">>, 2)[3]) ]

\* utils.parse_chapter_file, on the lines of the file
parse_chapter_file(file_lines) ==
    LET lines == NonBlankLines(file_lines)
        n     == IF Len(lines) = 0 THEN 0 ELSE Len(lines) - 1
    IN  IF \E i \in 0..(n - 1) :
               LineTimestamp(lines[i + 1]).raised \/ LineTimestamp(lines[i + 2]).raised
        THEN Raised
        ELSE Returned([i \in 1..n |-> BookChapter(lines, i - 1)])

\* ---------------------------------------------------- transcript validation

\* a path with no file behind it (no text: its one element is no character)
NoFile == <<"no file">>

\* Chapterizer.validate_srt: the tolerance in seconds
Tolerance == 30

Abs(x) == IF x < 0 THEN -x ELSE x

Arrow == <<" ","-","-",">"," ">>

\* Chapterizer.validate_srt: the verdict on the last line holding ' --> '
\* (an exception of the unpacking or of int() is caught and gives False)
LastTimestampOk(line, expected_duration) ==
    LET sides == Split(line, Arrow)
        end_time == Strip(sides[2])
        hms == Split(Split(end_time, <<",">>)[1], <<":">>)
    IN  /\ Len(hms) = 3
        /\ \A i \in 1..3 : IsIntText(hms[i])
        /\ LET last_timestamp == ToInt(hms[1]) * 3600 + ToInt(hms[2]) * 60 + ToInt(hms[3])
           IN  ~(Abs(last_timestamp - expected_duration) > Tolerance)

\* Chapterizer.validate_srt; file is the text of the file or NoFile,
\* expected_duration is in whole seconds
validate_srt(file, expected_duration) ==
    IF file = NoFile THEN FALSE
    ELSE LET content == Strip(file)
         IN  IF content = <<>> THEN FALSE
             ELSE IF ~EndsWith(content, <<NL, NL>>) THEN FALSE
             ELSE LET lines == Split(content, <<NL>>)
                      hits  == {i \in 1..Len(lines) : Contains(lines[i], Arrow)}
                  IN  IF hits = {} THEN TRUE
                      ELSE LastTimestampOk(
                               lines[CHOOSE i \in hits : \A j \in hits : j <= i],
                               expected_duration)

\* round(x) of Python 3 for the float x of t eighths of a second
Round(t) == RoundHalfEven(t, 8)

\* ------------------------------------------------------------ recordings

\* What the recognition engine yields for one audio file: the segments of
\* its stream, in order, and info.duration.  Times are eighths of a second.
Seg(start, end, text) == [start |-> start, end |-> end, text |-> text]

\* 0.0-2.0 s and 2.5-4.5 s of 5.0 s
RecChapterThenProse ==
    [ segments |-> << Seg(0, 16, <<" ","C","h","a","p","t","e","r"," ","1">>), Seg(20, 36, <<" ","a","p","t">>) >>,
      duration |-> 40 ]

\* 0.5-3.0 s of 3.5 s
RecRoman == [ segments |-> << Seg(4, 24, <<" ","v","i">>) >>, duration |-> 28 ]

\* nothing recognised in 2.0 s
RecSilence == [ segments |-> << >>, duration |-> 16 ]

\* 0.0-1.5 s of 40.5 s
RecLongTail == [ segments |-> << Seg(0, 12, <<" ","1","2">>) >>, duration |-> 324 ]

Recordings == { RecChapterThenProse, RecRoman, RecSilence, RecLongTail }

\* -------------------------------------------------- Chapterizer.process_file

\* the failing writes of process_file that are told apart: one for every
\* CutStep characters of the transcript
CutStep == 50


\* process_file: current_chapter after the chapter detection of one segment
\* (None is the empty text: both are falsy, and no accepted title is empty)
ChapterAfter(current_chapter, text) ==
    IF is_chapter_title(text) THEN text ELSE current_chapter

\* process_file: the text line of one entry
TextLine(current_chapter, text) ==
    IF current_chapter # <<>> /\ Contains(current_chapter, text)
    THEN <<"[","C","H","A","P","T","E","R","]"," ">> \o text \o <<NL>>
    ELSE text \o <<NL>>

\* process_file: the four writes of one iteration, i counting from 1
SrtEntry(i, segment, current_chapter) ==
    NatText(i) \o <<NL>>
    \o format_timestamp(segment.start) \o Arrow \o format_timestamp(segment.end) \o <<NL>>
    \o TextLine(current_chapter, Strip(segment.text))
    \o <<NL>>

RECURSIVE WriteEntries(_, _, _, _)
\* process_file: the text written by iterations i..upto of the loop
WriteEntries(segments, i, upto, current_chapter) ==
    IF i > upto THEN <<>>
    ELSE LET chapter == ChapterAfter(current_chapter, Strip(segments[i].text))
         IN  SrtEntry(i, segments[i], chapter)
             \o WriteEntries(segments, i + 1, upto, chapter)

\* process_file: everything the loop writes for a recording
WriteAll(recording) ==
    WriteEntries(recording.segments, 1, Len(recording.segments), <<>>)

\* how much of the text can have reached the file when something raises
\* after the transcript was opened: the text up to the end of any entry (an
\* exception between two iterations) and, for a write that fails, the text
\* cut at any character; of the latter the model takes every CutStep-th
WrittenLengths(recording) ==
    { Len(WriteEntries(recording.segments, 1, j, <<>>)) : j \in 0..Len(recording.segments) }
    \cup { n \in 0..Len(WriteAll(recording)) : n % CutStep = 0 }

\* the ways one call of process_file can go: it returns True; the engine
\* raises before the transcript is opened; or something raises after
\* `written` characters reached the file (the `with` closes the file, the
\* text stays)
Outcomes(recording) ==
    { [kind |-> "ok"], [kind |-> "raise_before_open"] }
    \cup { [kind |-> "raise_after", written |-> n] : n \in WrittenLengths(recording) }

\* process_file: the transcript on disk after the call
process_file_srt(recording, before, outcome) ==
    CASE outcome.kind = "ok" -> WriteAll(recording)
      [] outcome.kind = "raise_before_open" -> before
      [] outcome.kind = "raise_after" ->
             SubSeq(WriteAll(recording), 1, outcome.written)

\* process_file: its return value
process_file_returns(outcome) == outcome.kind = "ok"

\* process_file: failed_files after the call (the except branch appends)
process_file_failed(failed, audio_file, outcome) ==
    IF outcome.kind = "ok" THEN failed ELSE Append(failed, audio_file)

\* --------------------------------------------- Chapterizer.categorize_files

RECURSIVE categorize_files_partial_only(_, _, _, _)
\* categorize_files as it would be if a transcript that fails validation were
\* only reported in partial_files and not queued again
categorize_files_partial_only(audio_files, disk, i, lists) ==
    IF i > Len(audio_files) THEN lists
    ELSE LET expected_duration == Round(audio_files[i].duration)
             next ==
                 IF disk[i] # NoFile
                 THEN IF validate_srt(disk[i], expected_duration)
                      THEN [lists EXCEPT !.skipped = Append(@, i)]
                      ELSE [lists EXCEPT !.partial = Append(@, i)]
                 ELSE [lists EXCEPT !.unprocessed = Append(@, i)]
         IN  categorize_files_partial_only(audio_files, disk, i + 1, next)

RECURSIVE categorize_files(_, _, _, _)
\* categorize_files over audio_files[i..], appending to the three lists in
\* lists = [skipped, partial, unprocessed]; files are named by their position
\* in the sorted result of find_audio_files
categorize_files(audio_files, disk, i, lists) ==
    IF i > Len(audio_files) THEN lists
    ELSE LET expected_duration == Round(audio_files[i].duration)
             next ==
                 IF disk[i] # NoFile
                 THEN IF validate_srt(disk[i], expected_duration)
                      THEN [lists EXCEPT !.skipped = Append(@, i)]
                      ELSE [lists EXCEPT !.partial = Append(@, i),
                                         !.unprocessed = Append(@, i)]
                 ELSE [lists EXCEPT !.unprocessed = Append(@, i)]
         IN  categorize_files(audio_files, disk, i + 1, next)

\* ------------------------------------------------- transcribe.py stitching

\* repr() of the float of t eighths of a second, as an f-string writes it:
\* the whole part, a point, and the decimals of the eighths without their
\* trailing zeros (at least one decimal)
FloatText(t) ==
    LET frac == Pad((t % 8) * 125, 3)
        keep == IF frac[3] # "0" THEN 3 ELSE IF frac[2] # "0" THEN 2 ELSE 1
    IN  NatText(t \div 8) \o <<".">> \o SubSeq(frac, 1, keep)

\* FileTranscriber._process_segment: the block appended to transcription.srt.
\* segment_number is in eighths (the driver adds a float to it), offset in
\* eighths of a second
process_segment_entry(segment, segment_number, offset) ==
    [ number     |-> segment_number,
      start_time |-> format_timestamp_srt(segment.start, offset),
      end_time   |-> format_timestamp_srt(segment.end, offset),
      text       |-> Strip(segment.text) ]

\* FileTranscriber._process_segment: the line appended to
\* transcription.chapters when is_chapter accepts the text
process_segment_marker(segment, offset) ==
    FloatText(segment.start + offset) \o <<","," ">> \o segment.text \o <<NL>>

\* FileTranscriber.transcribe_with_progress: `return index, info.duration`,
\* both in eighths; index is unbound when the stream held no segment
transcribe_returns(recording) ==
    IF recording.segments = <<>> THEN Raised
    ELSE Returned(<<Len(recording.segments) * 8, recording.duration>>)

\* the driver's tuple assignment
\*   offset_seconds, offset_index = t.transcribe_with_progress(...)
driver_offsets(returned) ==
    [offset_seconds |-> returned[1], offset_index |-> returned[2]]

\* ------------------------------------------------- utils.process_mps_results

\* Python's max() over a non-empty collection of numbers
Max(S) == CHOOSE x \in S : \A y \in S : y <= x

\* process_mps_results: the inner loop over one result; every segment's id,
\* start and end are shifted by the offsets (in place) and the shifted copy,
\* its text left-stripped, is appended to processed_results
mps_shifted(result, index_offset, time_offset) ==
    [ k \in 1..Len(result) |->
        [ id    |-> result[k].id + index_offset,
          start |-> result[k].start + time_offset,
          end   |-> result[k].end + time_offset,
          text  |-> LStrip(result[k].text) ] ]

\* process_mps_results: "Update offsets for next result", computed from the
\* shifted segments of the result just handled
mps_offsets(shifted) ==
    [ index_offset |-> Max({shifted[k].id : k \in 1..Len(shifted)}) + 1,
      time_offset  |-> Max({shifted[k].end : k \in 1..Len(shifted)}) ]

RECURSIVE mps_loop(_, _, _, _)
\* process_mps_results: the outer loop from result r on.  max() of an empty
\* result raises ValueError.  `offsets` lists the offsets after each result.
mps_loop(results, r, state, processed_results) ==
    IF r > Len(results)
    THEN [raised |-> FALSE, value |-> processed_results, offsets |-> state.trace]
    ELSE IF results[r] = <<>>
    THEN [raised |-> TRUE, offsets |-> state.trace]
    ELSE LET shifted == mps_shifted(results[r], state.index_offset, state.time_offset)
             next    == mps_offsets(shifted)
         IN  mps_loop(results, r + 1,
                      [ index_offset |-> next.index_offset,
                        time_offset  |-> next.time_offset,
                        trace        |-> Append(state.trace, next) ],
                      processed_results \o shifted)

\* process_mps_results(results), offsets starting at 0 and 0
process_mps_results(results) ==
    mps_loop(results, 1, [index_offset |-> 0, time_offset |-> 0, trace |-> <<>>], <<>>)

\* ------------------------------------------------------------------ bounds

MaxFiles == 3

MaxRuns == 2

MaxDirFiles == 2

MaxMarkers == 3

MaxExpected == 36

MaxHours == 25
MaxResults == 2

\* ------------------------------------------------------------------- state

VARIABLES
    \* transcribe.py: BookTranscriber, FileTranscriber and the driver loop
    audio_files,            \* bt.audio_files: the recordings, sorted
    s_pc,                   \* "new", "loop", "file", "block", "done", "crashed"
    s_run,                  \* how many times the script was started
    s_file,                 \* the position of the loop in audio_files
    s_seg,                  \* segments of the current file already processed
    offset_seconds,         \* the driver's offset_seconds
    offset_index,           \* the driver's offset_index
    transcription_srt,      \* <dir>/transcription.srt, a sequence of blocks
    transcription_chapters, \* <dir>/transcription.chapters, its lines
    detection_files,        \* the files whose <audio_file>.srt exists
    srt_origin,             \* history: the run and file of each block
    chapters_origin,        \* history: run, file, time of each marker line
    crashes,                \* history: runs that ended with an exception
    \* chapterizer.py: Chapterizer
    directory,              \* find_audio_files(): the recordings, sorted
    disk,                   \* the transcript beside each audio file
    skipped_files, partial_files, unprocessed_files, failed_files,
    c_pc,                   \* "new", "loop", "done", "raised"
    c_next,                 \* the position of run's loop in unprocessed_files
    c_run,                  \* how many times the program was run
    attempted,              \* history: the calls of process_file of this run
    reports,                \* history: failure reports printed in this run
    prev_clean,             \* history: the previous run processed all it queued
    \* a call of one of the functions
    fn, fn_arg, fn_res

stitch_vars ==
    << audio_files, s_pc, s_run, s_file, s_seg, offset_seconds, offset_index,
       transcription_srt, transcription_chapters, detection_files, srt_origin,
       chapters_origin, crashes >>

chapterizer_vars ==
    << directory, disk, skipped_files, partial_files, unprocessed_files,
       failed_files, c_pc, c_next, c_run, attempted, reports, prev_clean >>

fn_vars == << fn, fn_arg, fn_res >>

vars == << stitch_vars, chapterizer_vars, fn_vars >>

\* the sequences of 1..n elements of S
SeqsUpTo(S, n) == UNION { [1..k -> S] : k \in 1..n }

StitchStart(files) ==
    /\ audio_files = files
    /\ s_pc = "new" /\ s_run = 1 /\ s_file = 1 /\ s_seg = 0
    /\ offset_seconds = 0 /\ offset_index = 0
    /\ transcription_srt = <<>> /\ transcription_chapters = <<>>
    /\ detection_files = {}
    /\ srt_origin = <<>> /\ chapters_origin = <<>> /\ crashes = 0

ChapterizerStart(files, transcripts) ==
    /\ directory = files /\ disk = transcripts
    /\ skipped_files = <<>> /\ partial_files = <<>>
    /\ unprocessed_files = <<>> /\ failed_files = <<>>
    /\ c_pc = "new" /\ c_next = 1 /\ c_run = 1
    /\ attempted = <<>> /\ reports = 0 /\ prev_clean = FALSE

FnStart == fn = "none" /\ fn_arg = <<>> /\ fn_res = <<>>

\* --------------------------------------------- transcribe.py: the driver run

\* bt = BookTranscriber("../data"); offset_seconds = 0.0; offset_index = 0.
\* _clean_detection_files removes <audio_file>.srt and <audio_file>.chapters
\* of every audio file; transcription.srt and transcription.chapters stay
Construct ==
    /\ s_pc = "new"
    /\ detection_files' = {}
    /\ offset_seconds' = 0 /\ offset_index' = 0
    /\ s_file' = 1 /\ s_seg' = 0
    /\ s_pc' = IF Len(audio_files) = 0 THEN "done" ELSE "loop"
    /\ UNCHANGED << audio_files, s_run, transcription_srt, transcription_chapters,
                    srt_origin, chapters_origin, crashes,
                    chapterizer_vars, fn_vars >>

\* t = FileTranscriber(audio_file); transcribe_with_progress up to its loop:
\* model.transcribe returns and <audio_file>.srt is opened for writing
BeginFile ==
    /\ s_pc = "loop"
    /\ s_pc' = "file" /\ s_seg' = 0
    /\ detection_files' = detection_files \cup {s_file}
    /\ UNCHANGED << audio_files, s_run, s_file, offset_seconds, offset_index,
                    transcription_srt, transcription_chapters, srt_origin,
                    chapters_origin, crashes,
                    chapterizer_vars, fn_vars >>

\* the segment the loop of transcribe_with_progress is at
CurrentSegment == audio_files[s_file].segments[s_seg + 1]

\* _process_segment, lines 55-58, for a segment is_chapter accepts: the
\* marker line is appended to transcription.chapters and that file is closed;
\* transcription.srt is not opened yet
ProcessSegmentMarker ==
    /\ s_pc = "file"
    /\ s_seg < Len(audio_files[s_file].segments)
    /\ is_chapter(CurrentSegment.text)
    /\ transcription_chapters' =
           Append(transcription_chapters,
                  process_segment_marker(CurrentSegment, offset_seconds))
    /\ chapters_origin' =
           Append(chapters_origin,
                  [run |-> s_run, file |-> s_file,
                   at |-> CurrentSegment.start + offset_seconds])
    /\ s_pc' = "block"
    /\ UNCHANGED << audio_files, s_run, s_file, s_seg, offset_seconds, offset_index,
                    transcription_srt, detection_files, srt_origin, crashes,
                    chapterizer_vars, fn_vars >>

\* _process_segment is at line 62, about to write the block: the segment has
\* no marker, or its marker is written
AtBlock ==
    /\ s_pc \in {"file", "block"}
    /\ s_seg < Len(audio_files[s_file].segments)
    /\ s_pc = "file" => ~is_chapter(CurrentSegment.text)

\* _process_segment, lines 62-65, and the end of the iteration of the loop of
\* transcribe_with_progress: the block is appended to transcription.srt
\*   await self._process_segment(segment, index + offset_index, offset_seconds)
ProcessSegment ==
    /\ AtBlock
    /\ LET index == s_seg + 1
       IN  /\ transcription_srt' =
                  Append(transcription_srt,
                         process_segment_entry(CurrentSegment, index * 8 + offset_index,
                                               offset_seconds))
           /\ srt_origin' = Append(srt_origin, [run |-> s_run, file |-> s_file])
           /\ s_seg' = index
    /\ s_pc' = "file"
    /\ UNCHANGED << audio_files, s_run, s_file, offset_seconds, offset_index,
                    transcription_chapters, chapters_origin, detection_files, crashes,
                    chapterizer_vars, fn_vars >>

\* the stream is drained: transcribe_with_progress returns and the driver
\* assigns the pair, then takes the next file; with no segment the return
\* statement raises and the script ends
FileReturn ==
    /\ s_pc = "file"
    /\ s_seg = Len(audio_files[s_file].segments)
    /\ LET r == transcribe_returns(audio_files[s_file])
       IN  IF r.raised
           THEN /\ s_pc' = "crashed" /\ crashes' = crashes + 1
                /\ UNCHANGED << offset_seconds, offset_index, s_file, s_seg >>
           ELSE /\ offset_seconds' = driver_offsets(r.value).offset_seconds
                /\ offset_index' = driver_offsets(r.value).offset_index
                /\ s_file' = s_file + 1 /\ s_seg' = 0
                /\ s_pc' = IF s_file = Len(audio_files) THEN "done" ELSE "loop"
                /\ UNCHANGED crashes
    /\ UNCHANGED << audio_files, s_run, transcription_srt, transcription_chapters,
                    detection_files, srt_origin, chapters_origin,
                    chapterizer_vars, fn_vars >>

\* FileTranscriber(audio_file) or model.transcribe raises (before
\* <audio_file>.srt is opened), or opening it, the engine's stream or the
\* opening of an output file raises between two writes (that of
\* transcription.srt after the marker line of the segment is written
\* included): nothing in the driver catches it, the script ends with the
\* files as they are
FileRaises ==
    /\ s_pc \in {"loop", "file", "block"}
    /\ s_pc' = "crashed" /\ crashes' = crashes + 1
    /\ UNCHANGED << audio_files, s_run, s_file, s_seg, offset_seconds, offset_index,
                    transcription_srt, transcription_chapters, detection_files,
                    srt_origin, chapters_origin,
                    chapterizer_vars, fn_vars >>

\* _process_segment raises in the write of the marker line or in closing
\* transcription.chapters: the first `written` characters of the line have
\* reached the file and no block is written
MarkerWriteRaises ==
    /\ s_pc = "file"
    /\ s_seg < Len(audio_files[s_file].segments)
    /\ LET line == process_segment_marker(CurrentSegment, offset_seconds)
       IN  /\ is_chapter(CurrentSegment.text)
           /\ \E written \in 1..Len(line) :
                  transcription_chapters' =
                      Append(transcription_chapters, SubSeq(line, 1, written))
           /\ chapters_origin' =
                  Append(chapters_origin,
                         [run |-> s_run, file |-> s_file,
                          at |-> CurrentSegment.start + offset_seconds])
    /\ s_pc' = "crashed" /\ crashes' = crashes + 1
    /\ UNCHANGED << audio_files, s_run, s_file, s_seg, offset_seconds, offset_index,
                    transcription_srt, detection_files, srt_origin,
                    chapterizer_vars, fn_vars >>

\* a block of which only a part reached transcription.srt
CutBlock(entry) ==
    [ number     |-> entry.number,
      start_time |-> entry.start_time,
      end_time   |-> entry.end_time,
      text       |-> entry.text,
      cut        |-> TRUE ]

\* _process_segment raises in the write of the block: a part of the block has
\* reached transcription.srt (the marker line, if there is one, was written
\* by the step before)
BlockWriteRaises ==
    /\ AtBlock
    /\ transcription_srt' =
           Append(transcription_srt,
                  CutBlock(process_segment_entry(CurrentSegment,
                                                 (s_seg + 1) * 8 + offset_index,
                                                 offset_seconds)))
    /\ srt_origin' = Append(srt_origin, [run |-> s_run, file |-> s_file])
    /\ s_pc' = "crashed" /\ crashes' = crashes + 1
    /\ UNCHANGED << audio_files, s_run, s_file, s_seg, offset_seconds, offset_index,
                    transcription_chapters, chapters_origin, detection_files,
                    chapterizer_vars, fn_vars >>

\* the script is started again on the same directory
StartAgain ==
    /\ s_pc \in {"done", "crashed"}
    /\ s_run < MaxRuns
    /\ s_run' = s_run + 1
    /\ s_pc' = "new"
    /\ UNCHANGED << audio_files, s_file, s_seg, offset_seconds, offset_index,
                    transcription_srt, transcription_chapters, detection_files,
                    srt_origin, chapters_origin, crashes,
                    chapterizer_vars, fn_vars >>

ChapterizerIdle == ChapterizerStart(<<>>, <<>>)

Init ==
    /\ \E files \in SeqsUpTo(Recordings, MaxFiles) : StitchStart(files)
    /\ ChapterizerIdle
    /\ FnStart

Next ==
    \/ Construct
    \/ BeginFile
    \/ ProcessSegmentMarker
    \/ ProcessSegment
    \/ FileReturn
    \/ FileRaises
    \/ MarkerWriteRaises
    \/ BlockWriteRaises
    \/ StartAgain

Spec == Init /\ [][Next]_vars

\* ------------------------------------- a whole run of the driver, as a value

\* transcribe_with_progress: the blocks one file appends to transcription.srt
FileEntries(recording, index_offset, time_offset) ==
    [ k \in 1..Len(recording.segments) |->
        process_segment_entry(recording.segments[k], k * 8 + index_offset,
                              time_offset) ]

RECURSIVE FileMarkers(_, _, _)
\* transcribe_with_progress: the lines one file appends to
\* transcription.chapters, from segment k on
FileMarkers(recording, k, time_offset) ==
    IF k > Len(recording.segments) THEN <<>>
    ELSE (IF is_chapter(recording.segments[k].text)
          THEN <<process_segment_marker(recording.segments[k], time_offset)>>
          ELSE <<>>)
         \o FileMarkers(recording, k + 1, time_offset)

RECURSIVE DriverRun(_, _, _, _)
\* the driver loop from file i on, started with the given offsets on an empty
\* directory and with no exception: what transcription.srt and
\* transcription.chapters hold at the end (every file has a segment)
DriverRun(files, i, seconds, index) ==
    IF i > Len(files) THEN [srt |-> <<>>, chapters |-> <<>>]
    ELSE LET next == driver_offsets(transcribe_returns(files[i]).value)
             rest == DriverRun(files, i + 1, next.offset_seconds, next.offset_index)
         IN  [ srt      |-> FileEntries(files[i], index, seconds) \o rest.srt,
               chapters |-> FileMarkers(files[i], 1, seconds) \o rest.chapters ]

\* ------------------------------------------------- claims on the driver run

AllHaveSegments == \A i \in 1..Len(audio_files) : audio_files[i].segments # <<>>

\* the time a timestamp text of transcription.srt stands for, in milliseconds
TimeOf(text) == parse_timestamp_srt(text).value

\* t eighths of a second in milliseconds
Ms(t) == t * 125

(***************************************************************************)
(* C1: when the driver processes two or more files, each with a segment,   *)
(* the subtitle numbers written to transcription.srt are 1, 2, 3, ... over *)
(* the whole sequence: the first number of the first file is 1 and every   *)
(* later block, in whatever file, has the previous number + 1.  Stated for *)
(* the first run on an empty directory.  Numbers are in eighths.           *)
(***************************************************************************)
C1_IndicesContinue ==
    (s_run = 1 /\ Len(audio_files) >= 2 /\ AllHaveSegments)
    => \A k \in 1..Len(transcription_srt) : transcription_srt[k].number = k * 8

(***************************************************************************)
(* C2: for files A before B of one run, the time offset handed to B's      *)
(* transcribe_with_progress is the last end time written before B, and     *)
(* every block and every chapter marker written for B starts at or after   *)
(* the last end time written for A.                                        *)
(***************************************************************************)
C2_TimesContinue ==
    (s_run = 1 /\ AllHaveSegments)
    => /\ (s_pc = "file" /\ s_file >= 2 /\ s_seg = 0)
              => Ms(offset_seconds)
                     = TimeOf(transcription_srt[Len(transcription_srt)].end_time)
       /\ \A j, k \in 1..Len(transcription_srt) :
              srt_origin[j].file < srt_origin[k].file
              => TimeOf(transcription_srt[k].start_time)
                     >= TimeOf(transcription_srt[j].end_time)
       /\ \A j \in 1..Len(transcription_srt), m \in 1..Len(chapters_origin) :
              srt_origin[j].file < chapters_origin[m].file
              => Ms(chapters_origin[m].at) >= TimeOf(transcription_srt[j].end_time)

(***************************************************************************)
(* C5: a file whose processing raises does not end the run, the next file  *)
(* of the list is still processed; and when the script is run again after  *)
(* a failure, the stitched transcript and the chapter-marker log it leaves *)
(* are those of a run in which no file failed.                             *)
(***************************************************************************)
C5_FailureIsolated ==
    /\ (s_pc = "crashed" /\ AllHaveSegments) => s_file = Len(audio_files)
    /\ (s_pc = "done" /\ crashes > 0 /\ AllHaveSegments)
           => /\ transcription_srt = DriverRun(audio_files, 1, 0, 0).srt
              /\ transcription_chapters = DriverRun(audio_files, 1, 0, 0).chapters

\* ------------------------------------------------------ Chapterizer.run

\* the transcript a complete call of process_file leaves for a recording
FullTranscript(recording) == process_file_srt(recording, NoFile, [kind |-> "ok"])

\* what may lie beside an audio file when the program starts: nothing, an
\* empty file, the transcript of a complete earlier run, or that transcript
\* cut short before its last line break
InitialTranscripts(recording) ==
    LET full == FullTranscript(recording)
    IN  { NoFile, <<>>, full }
        \cup (IF full = <<>> THEN {} ELSE { SubSeq(full, 1, Len(full) - 1) })

\* the loop of run as it would go if a failed call of process_file ended it
\* (an exception that process_file let through)
run_loop_next_stops(i, returned) ==
    IF returned THEN i + 1 ELSE Len(unprocessed_files) + 1

\* run, lines 298-301: the position of the loop after one call of
\* process_file, whatever it returned
run_loop_next(i, returned) == i + 1

\* the recording is transcribed completely and its last end time is within
\* the tolerance of the probed duration
CompleteWithinTolerance(recording) ==
    /\ recording.segments # <<>>
    /\ Abs(125 * recording.segments[Len(recording.segments)].end
           - 1000 * Round(recording.duration)) <= 1000 * Tolerance

\* run, lines 267-285: initialize_model, categorize_files on the lists of a
\* new Chapterizer, the summary, and the early return when nothing is queued
RunStart ==
    /\ c_pc = "new"
    /\ LET lists == categorize_files(directory, disk, 1,
                        [skipped |-> <<>>, partial |-> <<>>, unprocessed |-> <<>>])
       IN  /\ skipped_files' = lists.skipped
           /\ partial_files' = lists.partial
           /\ unprocessed_files' = lists.unprocessed
           /\ c_pc' = IF Len(lists.unprocessed) = 0 THEN "done" ELSE "loop"
    /\ failed_files' = <<>>
    /\ c_next' = 1
    /\ attempted' = <<>> /\ reports' = 0
    /\ UNCHANGED << directory, disk, c_run, prev_clean, stitch_vars, fn_vars >>

\* run, line 267: WhisperModel() raises in initialize_model; nothing in run
\* catches it, the program ends with the lists of the new Chapterizer empty
InitializeModelRaises ==
    /\ c_pc = "new"
    /\ c_pc' = "raised"
    /\ skipped_files' = <<>> /\ partial_files' = <<>>
    /\ unprocessed_files' = <<>> /\ failed_files' = <<>>
    /\ c_next' = 1
    /\ attempted' = <<>> /\ reports' = 0
    /\ UNCHANGED << directory, disk, c_run, prev_clean, stitch_vars, fn_vars >>

\* run, line 268: in categorize_files the probe of the duration of audio file
\* k (line 149, made when its transcript exists, outside any try) raises; the
\* program ends with the lists as the files before k left them
CategorizeRaises ==
    /\ c_pc = "new"
    /\ \E k \in 1..Len(directory) :
          /\ disk[k] # NoFile
          /\ LET lists == categorize_files(SubSeq(directory, 1, k - 1), disk, 1,
                              [skipped |-> <<>>, partial |-> <<>>, unprocessed |-> <<>>])
             IN  /\ skipped_files' = lists.skipped
                 /\ partial_files' = lists.partial
                 /\ unprocessed_files' = lists.unprocessed
    /\ c_pc' = "raised"
    /\ failed_files' = <<>>
    /\ c_next' = 1
    /\ attempted' = <<>> /\ reports' = 0
    /\ UNCHANGED << directory, disk, c_run, prev_clean, stitch_vars, fn_vars >>

\* run, lines 298-301: one iteration of the loop over unprocessed_files
ProcessFile ==
    /\ c_pc = "loop"
    /\ c_next <= Len(unprocessed_files)
    /\ LET audio_file == unprocessed_files[c_next]
       IN  \E outcome \in Outcomes(directory[audio_file]) :
              /\ disk' = [disk EXCEPT ![audio_file] =
                             process_file_srt(directory[audio_file], @, outcome)]
              /\ failed_files' = process_file_failed(failed_files, audio_file, outcome)
              /\ c_next' = run_loop_next(c_next, process_file_returns(outcome))
              /\ attempted' = Append(attempted,
                                     [file |-> audio_file, outcome |-> outcome])
    /\ UNCHANGED << directory, skipped_files, partial_files, unprocessed_files,
                    c_pc, c_run, reports, prev_clean, stitch_vars, fn_vars >>

\* run, lines 303-307: after the loop, the failure report when failed_files
\* is not empty
RunEnd ==
    /\ c_pc = "loop"
    /\ c_next > Len(unprocessed_files)
    /\ reports' = IF failed_files # <<>> THEN reports + 1 ELSE reports
    /\ c_pc' = "done"
    /\ UNCHANGED << directory, disk, skipped_files, partial_files,
                    unprocessed_files, failed_files, c_next, c_run, attempted,
                    prev_clean, stitch_vars, fn_vars >>

\* the program is run again on the same directory: a new Chapterizer
RunAgain ==
    /\ c_pc \in {"done", "raised"}
    /\ c_run < MaxRuns
    /\ c_run' = c_run + 1
    /\ c_pc' = "new"
    /\ skipped_files' = <<>> /\ partial_files' = <<>>
    /\ unprocessed_files' = <<>> /\ failed_files' = <<>>
    /\ c_next' = 1
    /\ prev_clean' =
           /\ \A a \in 1..Len(attempted) :
                  /\ attempted[a].outcome.kind = "ok"
                  /\ CompleteWithinTolerance(directory[attempted[a].file])
           /\ \A f \in 1..Len(directory) :
                  \E a \in 1..Len(attempted) : attempted[a].file = f
    /\ UNCHANGED << directory, disk, attempted, reports, stitch_vars, fn_vars >>

StitchIdle == StitchStart(<<>>)

InitChapterizer ==
    /\ \E files \in SeqsUpTo(Recordings, MaxDirFiles) :
           \E transcripts \in [1..Len(files) -> UNION {InitialTranscripts(r) : r \in Recordings}] :
               /\ \A i \in 1..Len(files) : transcripts[i] \in InitialTranscripts(files[i])
               /\ ChapterizerStart(files, transcripts)
    /\ StitchIdle
    /\ FnStart

NextChapterizer ==
    \/ RunStart
    \/ InitializeModelRaises
    \/ CategorizeRaises
    \/ ProcessFile
    \/ RunEnd
    \/ RunAgain

SpecChapterizer == InitChapterizer /\ [][NextChapterizer]_vars

\* --------------------------------------------- claims on Chapterizer.run

\* the files of a sequence of process_file calls
FilesOf(calls) == [a \in 1..Len(calls) |-> calls[a].file]

\* the calls that raised
RaisedCalls == SelectSeq(attempted, LAMBDA a : a.outcome.kind # "ok")

(***************************************************************************)
(* C3: if the previous run queued every audio file and processed each one  *)
(* successfully, leaving a complete transcript whose last end time is      *)
(* within 30 s of the probed duration, then the next run's                 *)
(* categorize_files puts every audio file in skipped_files and leaves      *)
(* unprocessed_files and partial_files empty.                              *)
(***************************************************************************)
C3_SecondRunSkipsAll ==
    (c_run >= 2 /\ c_pc \in {"loop", "done"} /\ prev_clean)
    => /\ unprocessed_files = <<>>
       /\ partial_files = <<>>
       /\ skipped_files = [i \in 1..Len(directory) |-> i]

(***************************************************************************)
(* C6: in Chapterizer.run a failing process_file never interrupts the      *)
(* loop: the files attempted so far are the queue up to the loop's         *)
(* position, in queue order and each once; at the end every queued file    *)
(* was attempted, failed_files is exactly the files whose attempt raised,  *)
(* in order and each once, and the failure report was printed only after   *)
(* the loop and once.  Stated for the runs that reach the loop.            *)
(***************************************************************************)
C6_LoopNeverInterrupted ==
    /\ c_pc = "loop"
           => /\ c_next <= Len(unprocessed_files) + 1
              /\ FilesOf(attempted) = SubSeq(unprocessed_files, 1, c_next - 1)
              /\ reports = 0
    /\ c_pc = "done"
           => /\ FilesOf(attempted) = unprocessed_files
              /\ reports = (IF RaisedCalls # <<>> THEN 1 ELSE 0)
    /\ c_pc \in {"loop", "done"}
           => /\ failed_files = FilesOf(RaisedCalls)
              /\ \A a, b \in 1..Len(attempted) :
                     attempted[a].file = attempted[b].file => a = b

\* a run ended in which a call raised, a later call was still made, and the
\* report was printed
C6_Witness ==
    /\ c_pc = "done"
    /\ reports = 1
    /\ \E a, b \in 1..Len(attempted) :
           a < b /\ attempted[a].outcome.kind # "ok" /\ attempted[b].outcome.kind = "ok"

\* ------------------------------------------------- calls of the functions
\* One behaviour is one call: fn names the function called, fn_arg its
\* argument and fn_res what it returned.  A function that touches no file is
\* one step; transcribe_with_progress awaits its writes and takes the steps
\* of the driver's call, fn_res staying <<>> until it returns or, at its
\* return statement, raises.

\* durations in eighths of a second, from zero to more than a day
TimeGrid ==
    { (h * 3600 + m * 60 + s) * 8 + e :
        h \in {0, 1, 23, 24, MaxHours}, m \in {0, 59}, s \in {0, 59},
        e \in {0, 1, 4, 7} }

\* utterances handed to the chapter predicates
Texts ==
    { <<"C","h","a","p","t","e","r"," ","O","n","e">>, <<"P","a","r","t"," ","I","I","I">>, <<"v","i">>, <<"1","2">>, <<"e","n","d"," ","o","f"," ","c","h","a","p","t","e","r">>,
      <<"T","h","e"," ","c","a","t"," ","s","a","t"," ","o","n"," ","t","h","e"," ","m","a","t">>, <<" ","C","h","a","p","t","e","r"," ","1","2">>, <<"1","2",".">>, <<" ","P","r","o","l","o","g","u","e">>,
      <<"b","o","o","k"," ","1",":"," ","c","h","a","p","t","e","r"," ","2">>, <<"A","c","t"," ","2">>, <<"V","o","l","u","m","e"," ","3">>, <<" ","X">>,
      <<"T","h","i","s"," ","w","a","s"," ","r","e","a","d"," ","f","o","r"," ","y","o","u"," ","b","y"," ","A","n","n">>, <<>>, <<" "," ">> }

\* the marker log the parser reads: marker i at (i - 1) * 500 s, in eighths
MarkerTime(i) == (i - 1) * 4000

MarkerTitle(i) == <<"C","h","a","p","t","e","r"," ">> \o NatText(i)

MarkerLine(i) ==
    format_timestamp_srt(MarkerTime(i), 0) \o <<","," ">> \o MarkerTitle(i) \o <<NL>>

\* the end-of-book line after n markers: with the BOOK_END word the parser's
\* comment names, or the timestamp alone
SentinelLine(n, kind) ==
    format_timestamp_srt(MarkerTime(n + 1), 0)
    \o (IF kind = "titled" THEN <<",","B","O","O","K","_","E","N","D">> ELSE <<>>) \o <<NL>>

\* a log of n markers, an optional blank line, an optional sentinel
MarkerLog(n, kind, blank) ==
    [i \in 1..n |-> MarkerLine(i)]
    \o (IF blank THEN <<<<NL>>>> ELSE <<>>)
    \o (IF kind = "none" THEN <<>> ELSE <<SentinelLine(n, kind)>>)

Apply_format_timestamp_srt ==
    /\ fn = "none"
    /\ \E x \in TimeGrid :
          /\ fn' = "format_timestamp_srt"
          /\ fn_arg' = x
          /\ fn_res' = [ text    |-> format_timestamp_srt(x, 0),
                         decoded |-> parse_timestamp_srt(format_timestamp_srt(x, 0)) ]
    /\ UNCHANGED << stitch_vars, chapterizer_vars >>

Apply_format_timestamp ==
    /\ fn = "none"
    /\ \E x \in TimeGrid :
          /\ fn' = "format_timestamp"
          /\ fn_arg' = x
          /\ fn_res' = [ text    |-> format_timestamp(x),
                         decoded |-> parse_timestamp_srt(format_timestamp(x)) ]
    /\ UNCHANGED << stitch_vars, chapterizer_vars >>

Apply_is_chapter ==
    /\ fn = "none"
    /\ \E text \in Texts :
          /\ fn' = "is_chapter"
          /\ fn_arg' = text
          /\ fn_res' = is_chapter(text)
    /\ UNCHANGED << stitch_vars, chapterizer_vars >>

Apply_is_chapter_title ==
    /\ fn = "none"
    /\ \E text \in Texts :
          /\ fn' = "is_chapter_title"
          /\ fn_arg' = text
          /\ fn_res' = is_chapter_title(text)
    /\ UNCHANGED << stitch_vars, chapterizer_vars >>

Apply_parse_chapter_file ==
    /\ fn = "none"
    /\ \E n \in 0..MaxMarkers, kind \in {"none", "titled", "bare"}, blank \in BOOLEAN :
          /\ fn' = "parse_chapter_file"
          /\ fn_arg' = [ markers |-> n, sentinel |-> kind,
                         lines |-> MarkerLog(n, kind, blank) ]
          /\ fn_res' = parse_chapter_file(MarkerLog(n, kind, blank))
    /\ UNCHANGED << stitch_vars, chapterizer_vars >>

Apply_validate_srt ==
    /\ fn = "none"
    /\ \E file \in UNION { InitialTranscripts(r) : r \in Recordings },
          expected_duration \in 0..MaxExpected :
          /\ fn' = "validate_srt"
          /\ fn_arg' = [ file |-> file, expected_duration |-> expected_duration ]
          /\ fn_res' = validate_srt(file, expected_duration)
    /\ UNCHANGED << stitch_vars, chapterizer_vars >>

\* a stream whose last segment does not end last
RecOverlap ==
    [ segments |-> << Seg(0, 24, <<" ","a">>), Seg(8, 16, <<" ","b">>) >>,
      duration |-> 24 ]

\* a per-file result as the engine hands it to process_mps_results: the
\* segments of a recording with ids counted from base, times from 0
MpsResult(recording, base) ==
    [ k \in 1..Len(recording.segments) |->
        [ id    |-> base + k - 1,
          start |-> recording.segments[k].start,
          end   |-> recording.segments[k].end,
          text  |-> recording.segments[k].text ] ]

Apply_process_mps_results ==
    /\ fn = "none"
    /\ \E base \in {0, 1}, files \in {<<>>} \cup SeqsUpTo(Recordings \cup {RecOverlap}, MaxResults) :
          LET results == [i \in 1..Len(files) |-> MpsResult(files[i], base)]
          IN  /\ fn' = "process_mps_results"
              /\ fn_arg' = [ base |-> base, results |-> results ]
              /\ fn_res' = process_mps_results(results)
    /\ UNCHANGED << stitch_vars, chapterizer_vars >>

\* the offsets a caller hands to transcribe_with_progress: the defaults, and
\* an index and a time left by earlier files, both in eighths
CallOffsets == { <<0, 0>>, <<16, 40>>, <<40, 16>> }

\* a call of transcribe_with_progress on a recording that lies alone in an
\* empty directory: t = FileTranscriber(audio_file) and the call with the
\* offsets.  Its steps are those of the driver's calls (BeginFile,
\* ProcessSegmentMarker, ProcessSegment and the steps in which it raises) and
\* its files are the driver's
Apply_transcribe_with_progress ==
    /\ fn = "none"
    /\ \E recording \in Recordings, offsets \in CallOffsets :
          /\ fn' = "transcribe_with_progress"
          /\ fn_arg' = [ recording      |-> recording,
                         offset_index   |-> offsets[1],
                         offset_seconds |-> offsets[2] ]
          /\ audio_files' = <<recording>>
          /\ offset_index' = offsets[1]
          /\ offset_seconds' = offsets[2]
    /\ s_pc' = "loop" /\ s_file' = 1 /\ s_seg' = 0
    /\ UNCHANGED << fn_res, s_run, transcription_srt, transcription_chapters,
                    detection_files, srt_origin, chapters_origin, crashes,
                    chapterizer_vars >>

\* transcribe_with_progress, line 110, in that call: the stream is drained
\* and `return index, info.duration` returns the pair or, with no segment,
\* raises
Return_transcribe_with_progress ==
    /\ fn = "transcribe_with_progress"
    /\ s_pc = "file"
    /\ s_seg = Len(audio_files[s_file].segments)
    /\ fn_res' = transcribe_returns(audio_files[s_file])
    /\ IF fn_res'.raised
       THEN s_pc' = "crashed" /\ crashes' = crashes + 1
       ELSE s_pc' = "done" /\ UNCHANGED crashes
    /\ UNCHANGED << fn, fn_arg, audio_files, s_run, s_file, s_seg, offset_seconds,
                    offset_index, transcription_srt, transcription_chapters,
                    detection_files, srt_origin, chapters_origin,
                    chapterizer_vars >>

InitFn == StitchIdle /\ ChapterizerIdle /\ FnStart

NextFn ==
    \/ Apply_format_timestamp_srt
    \/ Apply_format_timestamp
    \/ Apply_is_chapter
    \/ Apply_is_chapter_title
    \/ Apply_parse_chapter_file
    \/ Apply_validate_srt
    \/ Apply_process_mps_results
    \/ Apply_transcribe_with_progress
    \/ BeginFile
    \/ ProcessSegmentMarker
    \/ ProcessSegment
    \/ FileRaises
    \/ MarkerWriteRaises
    \/ BlockWriteRaises
    \/ Return_transcribe_with_progress

SpecFn == InitFn /\ [][NextFn]_vars

\* --------------------------------------------------- claims on the functions

\* the end time of the last 'start --> end' line of a transcript, in
\* milliseconds; -1 when it has no such line
LastEndTime(file) ==
    LET lines == Split(file, <<NL>>)
        hits  == {i \in 1..Len(lines) : Contains(lines[i], Arrow)}
    IN  IF hits = {} THEN -1
        ELSE TimeOf(Strip(Split(lines[CHOOSE i \in hits : \A j \in hits : j <= i],
                                Arrow)[2]))

(***************************************************************************)
(* C4: validate_srt(file, expected_duration) is true exactly when the file *)
(* exists and is not empty, ends with a blank line after its last entry,   *)
(* and the end time of its last 'start --> end' line is within 30 s of     *)
(* expected_duration (exactly 30 s is valid).                              *)
(***************************************************************************)
C4_ValidateExactly ==
    fn = "validate_srt"
    => (fn_res <=>
            /\ fn_arg.file # NoFile
            /\ fn_arg.file # <<>>
            /\ EndsWith(fn_arg.file, <<NL, NL>>)
            /\ LastEndTime(fn_arg.file) >= 0
            /\ Abs(LastEndTime(fn_arg.file) - 1000 * fn_arg.expected_duration)
                   <= 1000 * Tolerance)

(***************************************************************************)
(* C7: on a log of n >= 1 markers followed by one end-of-book line,        *)
(* parse_chapter_file returns n chapters in log order; chapter i has the   *)
(* id of its position counted from 0, the start of marker i, the end of    *)
(* the next line (the sentinel for the last) and the title of marker i.    *)
(***************************************************************************)
C7_ChaptersFromMarkers ==
    (fn = "parse_chapter_file" /\ fn_arg.markers >= 1 /\ fn_arg.sentinel = "titled")
    => /\ ~fn_res.raised
       /\ fn_res.value =
              [ i \in 1..fn_arg.markers |->
                  [ id    |-> i - 1,
                    start |-> Ms(MarkerTime(i)),
                    end   |-> Ms(MarkerTime(i + 1)),
                    title |-> MarkerTitle(i) ] ]

(***************************************************************************)
(* C8: parse_chapter_file raises whenever the log has fewer than two       *)
(* non-blank lines; it never returns a chapter list for such a log.        *)
(***************************************************************************)
C8_ShortLogRaises ==
    (fn = "parse_chapter_file" /\ Len(NonBlankLines(fn_arg.lines)) < 2)
    => fn_res.raised

\* the keywords the rule of the heuristic names
RuleKeywords ==
    { <<"c","h","a","p","t","e","r">>, <<"p","a","r","t">>, <<"b","o","o","k">>, <<"s","e","c","t","i","o","n">>, <<"v","o","l","u","m","e">>, <<"a","c","t">>,
      <<"p","r","o","l","o","g","u","e">>, <<"e","p","i","l","o","g","u","e">>, <<"i","n","t","r","o","d","u","c","t","i","o","n">>, <<"p","r","e","f","a","c","e">>,
      <<"a","p","p","e","n","d","i","x">>, <<"a","f","t","e","r","w","o","r","d">>, <<"i","n","t","e","r","l","u","d","e">> }

\* the rule: a keyword as the first word, a bare number, a Roman numeral
\* i..x, or one of the fixed phrases somewhere in the text
RuleAccepts(text) ==
    LET t == Strip(Lower(text))
    IN  \/ \E k \in RuleKeywords :
              /\ StartsWith(t, k)
              /\ (Len(t) = Len(k) \/ IsSpace(t[Len(k) + 1]))
        \/ IsDigitText(t)
        \/ t \in roman_numerals
        \/ \E phrase \in special_phrases : Contains(t, phrase)

(***************************************************************************)
(* C9: is_chapter and is_chapter_title each accept every text the rule     *)
(* accepts (among them "Chapter One", "Part III", "vi", "12" and "end of   *)
(* chapter") and each reject "The cat sat on the mat".                     *)
(***************************************************************************)
C9_HeuristicRule ==
    fn \in {"is_chapter", "is_chapter_title"}
    => /\ RuleAccepts(fn_arg) => fn_res
       /\ fn_arg = <<"T","h","e"," ","c","a","t"," ","s","a","t"," ","o","n"," ","t","h","e"," ","m","a","t">> => ~fn_res

\* HH:MM:SS,mmm: two or more hour digits, two minute and second digits,
\* three millisecond digits
WellFormedTimestamp(text) ==
    LET hms == Split(text, <<":">>)
    IN  /\ Len(hms) = 3
        /\ Len(hms[1]) >= 2 /\ IsDigitText(hms[1])
        /\ Len(hms[2]) = 2 /\ IsDigitText(hms[2])
        /\ LET sm == Split(hms[3], <<",">>)
           IN  /\ Len(sm) = 2
               /\ Len(sm[1]) = 2 /\ IsDigitText(sm[1])
               /\ Len(sm[2]) = 3 /\ IsDigitText(sm[2])

(***************************************************************************)
(* C10: for every duration x of the grid, each encoder gives a text of the *)
(* form HH:MM:SS,mmm whose hours field is the whole number of hours of x   *)
(* (not wrapped at 24), and parse_timestamp_srt of it is within 1 ms of x. *)
(***************************************************************************)
C10_RoundTrip ==
    fn \in {"format_timestamp_srt", "format_timestamp"}
    => /\ WellFormedTimestamp(fn_res.text)
       /\ ToInt(Split(fn_res.text, <<":">>)[1]) = fn_arg \div (3600 * 8)
       /\ ~fn_res.decoded.raised
       /\ Abs(fn_res.decoded.value - Ms(fn_arg)) <= 1


\* ---------------------------------------- the marker log, written and parsed

\* the segments of the file list that is_chapter accepts, as (file, segment)
AcceptedSegments ==
    UNION { { <<i, k>> : k \in { j \in 1..Len(audio_files[i].segments) :
                                    is_chapter(audio_files[i].segments[j].text) } } :
            i \in 1..Len(audio_files) }

(***************************************************************************)
(* C11: when the driver has processed the whole file list and is_chapter   *)
(* accepted at least one segment, transcription.chapters holds one line    *)
(* per accepted segment, in processing order, followed by exactly one      *)
(* end-of-book line, and parse_chapter_file of that log succeeds with one  *)
(* BookChapter per accepted segment.  Stated for the first run on an empty *)
(* directory.                                                              *)
(***************************************************************************)
C11_LogParses ==
    (s_pc = "done" /\ s_run = 1 /\ AllHaveSegments /\ AcceptedSegments # {})
    => LET n      == Cardinality(AcceptedSegments)
           parsed == parse_chapter_file(transcription_chapters)
       IN  /\ Len(transcription_chapters) = n + 1
           /\ SubSeq(transcription_chapters, 1, n)
                  = DriverRun(audio_files, 1, 0, 0).chapters
           /\ ~parsed.raised
           /\ Len(parsed.value) = n


\* ------------------------------------------ claims on categorize_files

\* how often file f occurs in the list
Occurrences(list, f) == Cardinality({p \in 1..Len(list) : list[p] = f})

\* the list names files in the order of discovery
InDiscoveryOrder(list) == \A p, q \in 1..Len(list) : p < q => list[p] < list[q]

(***************************************************************************)
(* C12: after categorize_files on a new Chapterizer (and before any file   *)
(* is processed) every discovered audio file is exactly once in            *)
(* skipped_files or in unprocessed_files and not in both; it is in         *)
(* skipped_files iff its transcript exists and validate_srt accepts it;    *)
(* partial_files is exactly the queued files whose transcript exists; and  *)
(* the queue is in discovery order.                                        *)
(***************************************************************************)
C12_CategorizePartition ==
    (c_pc \in {"loop", "done"} /\ attempted = <<>>)
    => /\ \A f \in 1..Len(directory) :
              /\ Occurrences(skipped_files, f) + Occurrences(unprocessed_files, f) = 1
              /\ Occurrences(skipped_files, f) = 1
                     <=> /\ disk[f] # NoFile
                         /\ validate_srt(disk[f], Round(directory[f].duration))
       /\ \A p \in 1..Len(skipped_files) : skipped_files[p] \in 1..Len(directory)
       /\ \A p \in 1..Len(unprocessed_files) : unprocessed_files[p] \in 1..Len(directory)
       /\ partial_files = SelectSeq(unprocessed_files, LAMBDA f : disk[f] # NoFile)
       /\ InDiscoveryOrder(unprocessed_files)

\* categorize_files has queued a file with no transcript and, after it, a file
\* whose transcript failed validation
C12_Witness ==
    /\ c_pc = "loop" /\ attempted = <<>>
    /\ \E p, q \in 1..Len(unprocessed_files) :
           /\ p < q
           /\ disk[unprocessed_files[p]] = NoFile
           /\ disk[unprocessed_files[q]] # NoFile
           /\ Occurrences(partial_files, unprocessed_files[q]) = 1


\* ------------------------------------------ claims on process_file's tags

\* the text line of an entry as it would read if the tag depended on the
\* segment's own text alone
OwnTextLine(text) ==
    IF is_chapter_title(text)
    THEN <<"[","C","H","A","P","T","E","R","]"," ">> \o text \o <<NL>>
    ELSE text \o <<NL>>

RECURSIVE OwnTextEntries(_, _)
\* the transcript of the segments from i on, tagged by their own text alone
OwnTextEntries(segments, i) ==
    IF i > Len(segments) THEN <<>>
    ELSE NatText(i) \o <<NL>>
         \o format_timestamp(segments[i].start) \o Arrow
         \o format_timestamp(segments[i].end) \o <<NL>>
         \o OwnTextLine(Strip(segments[i].text))
         \o <<NL>>
         \o OwnTextEntries(segments, i + 1)

(***************************************************************************)
(* C13: in the transcript process_file writes, a segment's text line has   *)
(* the "[CHAPTER] " prefix iff is_chapter_title accepts that segment's own  *)
(* trimmed text, whatever segments came before it in the file.             *)
(***************************************************************************)
C13_TagFromOwnText ==
    (attempted # <<>> /\ attempted[Len(attempted)].outcome.kind = "ok")
    => LET audio_file == attempted[Len(attempted)].file
       IN  disk[audio_file] = OwnTextEntries(directory[audio_file].segments, 1)


\* ------------------------------------------ claims on process_mps_results

RECURSIVE EntriesUpTo(_, _)
\* how many segments the first k results hold
EntriesUpTo(results, k) ==
    IF k = 0 THEN 0 ELSE EntriesUpTo(results, k - 1) + Len(results[k])

\* the positions of result k's entries in the returned list
PositionsOf(results, k) == (EntriesUpTo(results, k - 1) + 1)..EntriesUpTo(results, k)

(***************************************************************************)
(* C14: process_mps_results, given non-empty results whose ids count from  *)
(* a common base 0 or 1 and whose times start at 0, returns one timeline:  *)
(* after each result index_offset = last emitted id + 1 and time_offset =  *)
(* last emitted absolute end; ids are strictly increasing and the first id *)
(* of result k+1 is the last id of result k plus 1; every entry of result  *)
(* k+1 starts at or after the greatest absolute end of result k; and the   *)
(* output keeps the input order.                                           *)
(***************************************************************************)
C14_MpsTimeline ==
    (/\ fn = "process_mps_results"
     /\ \A k \in 1..Len(fn_arg.results) : fn_arg.results[k] # <<>>)
    => LET results == fn_arg.results
           n       == Len(results)
           last(k) == EntriesUpTo(results, k)
       IN  /\ ~fn_res.raised
           /\ Len(fn_res.value) = last(n)
           /\ \A p \in 1..(last(n) - 1) : fn_res.value[p].id < fn_res.value[p + 1].id
           /\ \A k \in 1..n :
                 /\ fn_res.offsets[k].index_offset = fn_res.value[last(k)].id + 1
                 /\ fn_res.offsets[k].time_offset = fn_res.value[last(k)].end
                 /\ \A j \in 1..Len(results[k]) :
                       fn_res.value[last(k - 1) + j].text = LStrip(results[k][j].text)
           /\ \A k \in 1..(n - 1) :
                 /\ fn_res.value[last(k) + 1].id = fn_res.value[last(k)].id + 1
                 /\ \A p \in PositionsOf(results, k), q \in PositionsOf(results, k + 1) :
                       fn_res.value[q].start >= fn_res.value[p].end


\* ------------------------------------------ claims on a stream with no segment

\* the results that hold a segment, in their order
NonEmptyResults(results) == SelectSeq(results, LAMBDA result : result # <<>>)

(***************************************************************************)
(* C15: a file whose stream yields no segment is handled without error by  *)
(* both stitching functions.  transcribe_with_progress returns normally,   *)
(* emits no entry and hands back the index offset it was given;            *)
(* process_mps_results returns normally and its list is the one it returns *)
(* for the same results with the empty ones left out, so no entry is       *)
(* emitted for the empty file and the following ids continue the sequence. *)
(***************************************************************************)
C15_EmptyStreamHandled ==
    /\ (/\ fn = "transcribe_with_progress"
        /\ fn_arg.recording.segments = <<>>
        /\ fn_res # <<>>)
       => /\ ~fn_res.raised
          /\ transcription_srt = <<>>
          /\ fn_res.value[1] = fn_arg.offset_index
    /\ (fn = "process_mps_results"
        /\ \E k \in 1..Len(fn_arg.results) : fn_arg.results[k] = <<>>)
       => /\ ~fn_res.raised
          /\ fn_res.value = process_mps_results(NonEmptyResults(fn_arg.results)).value

=============================================================================
